---- MODULE Spec2Model ----
(***************************************************************************)
(* A model of the image editor of src/lib/core.js: the snapshot history    *)
(* and its undo/redo handlers, the line and path drawing tools, the angle  *)
(* snap they share, and the zoom controller.                               *)
(*                                                                         *)
(* Coordinates are fixed-point numbers in hundredths of a pixel; angles    *)
(* are fixed-point numbers in thousandths of a degree; a zoom level is a   *)
(* whole-percent value together with the offset, in units of the last      *)
(* place, of the double the code holds from the double nearest to          *)
(* percent/100.                                                            *)
(***************************************************************************)
EXTENDS Integers, Sequences, FiniteSets, TLC

VARIABLES
  objects,            \* the canvas's objects, bottom first
  history,            \* the undo/redo stack of this.history
  timerPending,       \* the initial-snapshot timer has not fired yet
  activeTool,         \* this.activeTool
  isDrawingLineMode,  \* canvas.isDrawingLineMode
  isDrawingPathMode,  \* canvas.isDrawingPathMode
  isDrawingTextMode,  \* canvas.isDrawingTextMode
  activeSelection,    \* this.activeSelection: the position in objects of the selected object, 0 when there is none
  inputFocused,       \* a text input or textarea of the page has the focus
  isDrawingText,      \* textBoxDrawing: a text-box gesture is in progress
  textboxRect,        \* textBoxDrawing: <<left, top, width, height>> of the rubber-band rectangle
  origX,              \* textBoxDrawing: the anchor of the gesture
  origY,
  isDrawingLine,      \* lineDrawing: a line gesture is in progress
  lineToDraw,         \* lineDrawing: geometry of the line under construction
  pointerPoints,      \* lineDrawing: the anchor of the line under construction
  isDrawingPath,      \* pathDrawing: a path is in progress
  pathToDraw,         \* pathDrawing: the segments of the path in progress, <<>> when there is none
  updatedPath,        \* pathDrawing: the segment written by the last pointer-move
  isMouseDown,        \* pathDrawing: the button is down
  isDrawingCurve,     \* pathDrawing: the last point is being pulled into a curve
  rememberX,          \* pathDrawing: the end point of the curve being pulled
  rememberY,
  mouseHeld,          \* the pointer button is down on the canvas
  zoom,               \* canvas.getZoom(): <<whole percent, offset in units of the last place>>
  originalW,          \* canvas.originalW, in pixels
  originalH,          \* canvas.originalH, in pixels
  width,              \* canvas.width, in hundredths of a pixel
  height,             \* canvas.height, in hundredths of a pixel
  snapIn,             \* the angle given to the angle snap, in thousandths of a degree
  snapOut,            \* the angle the angle snap returned
  snapDone,           \* the angle snap was applied to snapIn
  pc,                 \* init(): the number of its steps that have returned
  canvas,             \* this.canvas: "unset" before initializeCanvas, then "canvas" or "null"
  uncaught,           \* an exception has left init()
  log,                \* the messages written with console.error
  aligning,           \* alignObject: the calls suspended at their await, each <<pos, bound>>
  imageData,          \* getRealBBox: the pixels of the decoded image, [w, h, data]; data holds <<x, y>> of the pixels with alpha
  realBound,          \* getRealBBox: what scanPixels returned last
  loading,            \* paste: the pasted images whose decoding has not ended
  sequential,         \* observer: the selection's geometry had every alignment run to its end when requested
  lastEvent,          \* observer: the handler that ran last
  loadedDoc,          \* observer: the document the canvas was loaded with
  phase,              \* observer: "edits", then "undos", else "other"
  nEdits,             \* observer: edits pushed while phase = "edits"
  nUndo,              \* observer: undo() calls while phase = "undos"
  chain,              \* observer: "undone" after an undo took effect, "redone" after the redo that follows it
  docBeforeUndo,      \* observer: the canvas document just before the last undo that took effect
  zoomBefore,         \* observer: the zoom level before the last event
  nPlaced,            \* observer: the points placed by pointer-down in the path in progress
  lastArg             \* observer: the argument of the handler that ran last, 0 when it has none

histVars  == <<objects, history, timerPending>>
toolVars  == <<activeTool, isDrawingLineMode, isDrawingPathMode, isDrawingTextMode>>
lineVars  == <<isDrawingLine, lineToDraw, pointerPoints>>
zoomVars  == <<zoom, originalW, originalH, width, height>>
ghostVars == <<lastEvent, lastArg, loadedDoc, phase, nEdits, nUndo, chain, docBeforeUndo, zoomBefore, nPlaced>>
snapVars  == <<snapIn, snapOut, snapDone>>
bootVars  == <<pc, canvas, uncaught, log>>
asyncVars == <<aligning, imageData, realBound, loading, sequential>>
pathVars  == <<isDrawingPath, pathToDraw, updatedPath, isMouseDown, isDrawingCurve, rememberX, rememberY>>
selVars   == <<activeSelection, inputFocused>>
textVars  == <<isDrawingText, textboxRect, origX, origY>>
vars == <<histVars, toolVars, lineVars, pathVars, textVars, selVars, mouseHeld, zoomVars, snapVars, bootVars, asyncVars, ghostVars>>

(***************************************************************************)
(* Bounds of the model.                                                    *)
(***************************************************************************)
MaxObjects == 2     \* objects on the canvas
MaxHistory == 3     \* snapshots held by the history
MaxSegs == 3        \* segments of a path in progress
MaxEffectChanges == 1   \* effect slider changes in a session
MaxSide == 3        \* columns and rows of a decoded image
MaxPending == 2     \* alignment requests suspended at a time

(***************************************************************************)
(* JavaScript arithmetic.                                                  *)
(***************************************************************************)
\* a % b of JavaScript: the remainder takes the sign of the dividend
JsRem(a, b) == IF a >= 0 THEN a % b ELSE -((-a) % b)

\* parseInt(a / b): the quotient truncated toward zero
ParseIntDiv(a, b) == IF a >= 0 THEN a \div b ELSE -((-a) \div b)

\* a / b rounded to the nearest integer (the fixed-point product)
RoundDiv(a, b) == IF a >= 0 THEN (2 * a + b) \div (2 * b) ELSE -((2 * (-a) + b) \div (2 * b))

RECURSIVE SqrtSearch(_, _, _)
SqrtSearch(n, lo, hi) ==
  IF lo >= hi THEN lo
  ELSE LET mid == (lo + hi + 1) \div 2
       IN IF mid * mid <= n THEN SqrtSearch(n, mid, hi) ELSE SqrtSearch(n, lo, mid - 1)

Abs(a) == IF a < 0 THEN -a ELSE a

\* Math.sqrt(x2 * x2 + y2 * y2) of a displacement in pixels, to the nearest hundredth of a pixel
SqrtCenti(x2, y2) ==
  LET n == (x2 * x2 + y2 * y2) * 10000
      r == SqrtSearch(n, 0, (Abs(x2) + Abs(y2)) * 100)
  IN IF (2 * r + 1) * (2 * r + 1) < 4 * n THEN r + 1 ELSE r

\* Math.atan2(y2, x2) / Math.PI * 180 of a displacement <<x2, y2>> in pixels,
\* to the nearest thousandth of a degree, for the displacements the pointer makes
Atan2MilliDeg(d) ==
  (<<-200, 0>> :> 180000 @@ <<-197, 4>> :> 178837 @@ <<-194, 8>> :> 177639 @@
   <<-192, 8>> :> 177614 @@ <<-189, 12>> :> 176367 @@ <<-184, 16>> :> 175030 @@
   <<-100, -30>> :> -163301 @@ <<-100, -25>> :> -165964 @@ <<-100, -5>> :> -177138 @@
   <<-100, 0>> :> 180000 @@ <<-100, 5>> :> 177138 @@ <<-100, 25>> :> 165964 @@
   <<-100, 30>> :> 163301 @@ <<-97, 4>> :> 177639 @@ <<-92, 8>> :> 175030 @@
   <<-16, -16>> :> -135000 @@ <<-13, -12>> :> -137291 @@ <<-10, -8>> :> -141340 @@
   <<-8, -8>> :> -135000 @@ <<-6, -8>> :> -126870 @@ <<-5, -4>> :> -141340 @@
   <<-3, -4>> :> -126870 @@ <<0, -30>> :> -90000 @@ <<0, -25>> :> -90000 @@
   <<0, -5>> :> -90000 @@ <<0, 0>> :> 0 @@ <<0, 5>> :> 90000 @@ <<0, 25>> :> 90000 @@
   <<0, 30>> :> 90000 @@ <<2, 0>> :> 0 @@ <<3, 4>> :> 53130 @@ <<5, 4>> :> 38660 @@
   <<6, 8>> :> 53130 @@ <<8, 8>> :> 45000 @@ <<10, 8>> :> 38660 @@
   <<11, 12>> :> 47490 @@ <<16, 16>> :> 45000 @@ <<84, -16>> :> -10784 @@
   <<87, -12>> :> -7853 @@ <<92, -8>> :> -4970 @@ <<94, -8>> :> -4865 @@
   <<97, -4>> :> -2361 @@ <<100, -30>> :> -16699 @@ <<100, -25>> :> -14036 @@
   <<100, -5>> :> -2862 @@ <<100, 0>> :> 0 @@ <<100, 5>> :> 2862 @@
   <<100, 25>> :> 14036 @@ <<100, 30>> :> 16699 @@ <<102, 0>> :> 0 @@
   <<103, 4>> :> 2224 @@ <<108, 8>> :> 4236 @@ <<184, -16>> :> -4970 @@
   <<194, -8>> :> -2361 @@ <<200, 0>> :> 0)[d]

\* Math.cos and Math.sin of a multiple of 15 degrees, in ten-thousandths
Cos4(a) ==
  (-165000 :> -9659 @@ -150000 :> -8660 @@ -135000 :> -7071 @@ -120000 :> -5000 @@
   -105000 :> -2588 @@ -90000 :> 0 @@ -75000 :> 2588 @@ -60000 :> 5000 @@
   -45000 :> 7071 @@ -30000 :> 8660 @@ -15000 :> 9659 @@ 0 :> 10000 @@
   15000 :> 9659 @@ 30000 :> 8660 @@ 45000 :> 7071 @@ 60000 :> 5000 @@
   75000 :> 2588 @@ 90000 :> 0 @@ 105000 :> -2588 @@ 120000 :> -5000 @@
   135000 :> -7071 @@ 150000 :> -8660 @@ 165000 :> -9659 @@ 180000 :> -10000)[a]

Sin4(a) == Cos4(IF a - 90000 <= -180000 THEN a + 270000 ELSE a - 90000)

(***************************************************************************)
(* The angle snap of the line and path tools.                              *)
(***************************************************************************)
\* the angle snap with Math.round for parseInt(x + 7.5): half-way angles go away from zero
SnapAngleRoundAway(angle) ==
  IF angle >= 0 THEN ((angle + 7500) \div 15000) * 15000 ELSE -(((-angle + 7500) \div 15000) * 15000)

\* angle = parseInt(((angle + 7.5) % 360) / 15) * 15, in thousandths of a degree
SnapAngle(angle) == ParseIntDiv(JsRem(angle + 7500, 360000), 15000) * 15000

\* the endpoint with the sine and the cosine exchanged
SnappedEndSwapped(startX, startY, p) ==
  LET x2 == (p[1] * 100 - startX) \div 100
      y2 == (p[2] * 100 - startY) \div 100
      r == SqrtCenti(x2, y2)
      angle == SnapAngle(Atan2MilliDeg(<<x2, y2>>))
  IN <<RoundDiv(r * Sin4(angle), 10000) + startX, RoundDiv(r * Cos4(angle), 10000) + startY>>

\* the endpoint at the snapped angle and the pointer's distance from <<startX, startY>>;
\* p is the pointer in pixels, the start and the result are in hundredths of a pixel
SnappedEnd(startX, startY, p) ==
  LET x2 == (p[1] * 100 - startX) \div 100
      y2 == (p[2] * 100 - startY) \div 100
      r == SqrtCenti(x2, y2)
      angle == SnapAngle(Atan2MilliDeg(<<x2, y2>>))
      cosx == RoundDiv(r * Cos4(angle), 10000)
      sinx == RoundDiv(r * Sin4(angle), 10000)
  IN <<cosx + startX, sinx + startY>>

(***************************************************************************)
(* Documents and snapshots.  A canvas object is [type, geom, live, fill,    *)
(* opacity, filters]: geom is its list of segments (a line, a path) or its *)
(* <<left, top, width, height>> (any other object), live says that the     *)
(* object is the one a drawing tool still holds and mutates (its geometry  *)
(* is then the tool's), fill is the kind of its fill, opacity is in        *)
(* hundredths and filters is the filter list of an image.                  *)
(***************************************************************************)
Geom(o) ==
  IF ~o.live THEN o.geom
  ELSE IF o.type = "line" THEN lineToDraw
  ELSE IF o.type = "path" THEN pathToDraw
  ELSE textboxRect

\* a new object with the default style
Obj(type, geom, live) ==
  [type |-> type, geom |-> geom, live |-> live, fill |-> "default", opacity |-> 100, filters |-> <<>>]

\* object.toObject(): the serializable fields of an object
toObject(o) ==
  [type |-> o.type, geom |-> Geom(o), fill |-> o.fill, opacity |-> o.opacity, filters |-> o.filters]

\* canvas.toJSON(): the objects' serializable fields
toJSON(objs) == [i \in 1..Len(objs) |-> toObject(objs[i])]

\* JSON.stringify and JSON.parse; a malformed string has no document
stringify(doc) == <<"json", doc>>
Malformed == <<"malformed">>
CanParse(s) == s[1] = "json"
parse(s) == s[2]

\* canvas.loadFromJSON(doc): every object is created anew
loadFromJSON(doc) ==
  [i \in 1..Len(doc) |->
     [type |-> doc[i].type, geom |-> doc[i].geom, live |-> FALSE,
      fill |-> doc[i].fill, opacity |-> doc[i].opacity, filters |-> doc[i].filters]]

(***************************************************************************)
(* window.UndoRedoStack(): the newest entry and the undo and redo lists.   *)
(***************************************************************************)
EmptyHistory == [undo |-> <<>>, redo |-> <<>>, latest |-> <<>>]

HistorySize(h) == Len(h.undo) + Len(h.redo) + Len(h.latest)

HistoryPush(h, s) == [undo |-> h.undo \o h.latest, redo |-> <<>>, latest |-> <<s>>]

HistoryUndo(h) ==
  IF Len(h.undo) = 0 THEN h
  ELSE [undo |-> SubSeq(h.undo, 1, Len(h.undo) - 1),
        redo |-> h.redo \o h.latest,
        latest |-> <<h.undo[Len(h.undo)]>>]

HistoryRedo(h) ==
  IF Len(h.redo) = 0 THEN h
  ELSE [undo |-> h.undo \o h.latest,
        redo |-> SubSeq(h.redo, 1, Len(h.redo) - 1),
        latest |-> <<h.redo[Len(h.redo)]>>]

\* the 'object:modified' handler: push the canvas as it is after the change
Modified(objs) == HistoryPush(history, stringify(toJSON(objs)))

\* a handler that pushes is taken only while the history has room
HasRoom == HistorySize(history) - Len(history.redo) < MaxHistory

(***************************************************************************)
(* Observers.                                                              *)
(***************************************************************************)
Doc == toJSON(objects)

\* an edit was committed and pushed
GhostEdit(ev) ==
  /\ lastEvent' = ev
  /\ chain' = "none"
  /\ IF phase = "edits"
       THEN nEdits' = nEdits + 1 /\ phase' = phase
       ELSE nEdits' = nEdits /\ phase' = "other"
  /\ UNCHANGED <<loadedDoc, nUndo, docBeforeUndo, nPlaced>>
  /\ zoomBefore' = zoom
  /\ lastArg' = 0

\* any other event of the user; one that changes the canvas breaks the
\* sequence "edits, then undos" when it comes after the first undo
GhostArg(ev, arg, breaks) ==
  /\ lastEvent' = ev
  /\ lastArg' = arg
  /\ chain' = "none"
  /\ phase' = IF breaks /\ phase = "undos" THEN "other" ELSE phase
  /\ UNCHANGED <<loadedDoc, nEdits, nUndo, docBeforeUndo, nPlaced>>
  /\ zoomBefore' = zoom

GhostOther(ev, breaks) == GhostArg(ev, 0, breaks)

\* undo() was called; effective says that the undo list was not empty
GhostUndo(effective) ==
  /\ lastEvent' = "undo"
  /\ chain' = IF effective THEN "undone" ELSE chain
  /\ docBeforeUndo' = IF effective THEN Doc ELSE docBeforeUndo
  /\ IF phase \in {"edits", "undos"} /\ ~isDrawingLine /\ nUndo < nEdits
       THEN phase' = "undos" /\ nUndo' = nUndo + 1
       ELSE phase' = "other" /\ nUndo' = nUndo
  /\ UNCHANGED <<loadedDoc, nEdits, nPlaced>>
  /\ zoomBefore' = zoom
  /\ lastArg' = 0

\* redo() was called
GhostRedo(effective) ==
  /\ lastEvent' = "redo"
  /\ chain' = IF effective /\ chain = "undone" THEN "redone"
              ELSE IF effective THEN "none" ELSE chain
  /\ phase' = "other"
  /\ UNCHANGED <<loadedDoc, nEdits, nUndo, docBeforeUndo, nPlaced>>
  /\ zoomBefore' = zoom
  /\ lastArg' = 0

(***************************************************************************)
(* setActiveTool(id), as far as the drawing-mode flags go.                 *)
(***************************************************************************)
Tools == {"select", "line", "path", "textbox"}

\* discarding the active object fires selection:cleared, whose handler calls
\* setActiveSelection(null) and with it setActiveTool('select')
setActiveTool(id) ==
  /\ ~mouseHeld
  /\ activeTool' = IF id # "select" /\ activeSelection # 0 THEN "select" ELSE id
  /\ activeSelection' = IF id # "select" THEN 0 ELSE activeSelection
  /\ isDrawingLineMode' = (id = "line")
  /\ isDrawingPathMode' = (id = "path")
  /\ isDrawingTextMode' = (id = "textbox")
  /\ UNCHANGED <<histVars, lineVars, mouseHeld, inputFocused>>
  /\ UNCHANGED <<zoomVars, snapVars, bootVars, asyncVars, textVars, pathVars>>
  /\ GhostOther("tool", FALSE)

(***************************************************************************)
(* The initial snapshot, taken one second after the canvas was created.    *)
(***************************************************************************)
InitialSnapshot ==
  /\ timerPending
  /\ timerPending' = FALSE
  /\ history' = HistoryPush(history, stringify(toJSON(objects)))
  /\ UNCHANGED <<objects, toolVars, lineVars, mouseHeld>>
  /\ UNCHANGED <<zoomVars, snapVars, bootVars, asyncVars, selVars, textVars, pathVars>>
  /\ lastEvent' = "timer"
  /\ UNCHANGED <<loadedDoc, phase, nEdits, nUndo, chain, docBeforeUndo, nPlaced>>
  /\ zoomBefore' = zoom
  /\ lastArg' = 0

(***************************************************************************)
(* undo() and redo(), called by Ctrl+Z and Ctrl+Y.                         *)
(***************************************************************************)
\* canvas.loadFromJSON clears the canvas: an active object is discarded, which
\* fires selection:cleared and with it setActiveSelection(null), setActiveTool('select')
LoadClearsSelection(loaded) ==
  IF loaded /\ activeSelection # 0
    THEN /\ activeSelection' = 0
         /\ activeTool' = "select"
         /\ isDrawingLineMode' = FALSE
         /\ isDrawingPathMode' = FALSE
         /\ isDrawingTextMode' = FALSE
    ELSE UNCHANGED <<toolVars, activeSelection>>

\* undo() without its guard on the undo list: at the oldest entry it loads an empty canvas
undoNoGuard ==
  /\ LET current == IF Len(history.undo) > 0 THEN history.undo[Len(history.undo)] ELSE stringify(<<>>)
     IN /\ history' = HistoryUndo(history)
        /\ objects' = IF CanParse(current) THEN loadFromJSON(parse(current)) ELSE objects
        /\ LoadClearsSelection(CanParse(current))
  /\ UNCHANGED <<timerPending, lineVars, mouseHeld, inputFocused>>
  /\ UNCHANGED <<zoomVars, snapVars, bootVars, asyncVars, textVars, pathVars>>
  /\ GhostUndo(Len(history.undo) > 0)

undo ==
  /\ IF Len(history.undo) > 0
       THEN LET current == history.undo[Len(history.undo)]
            IN /\ history' = HistoryUndo(history)
               /\ objects' = IF CanParse(current) THEN loadFromJSON(parse(current)) ELSE objects
               /\ LoadClearsSelection(CanParse(current))
       ELSE UNCHANGED <<objects, history, toolVars, activeSelection>>
  /\ UNCHANGED <<timerPending, lineVars, mouseHeld, inputFocused>>
  /\ UNCHANGED <<zoomVars, snapVars, bootVars, asyncVars, textVars, pathVars>>
  /\ GhostUndo(Len(history.undo) > 0)

redo ==
  /\ IF Len(history.redo) > 0
       THEN LET current == history.redo[Len(history.redo)]
            IN /\ history' = HistoryRedo(history)
               /\ objects' = IF CanParse(current) THEN loadFromJSON(parse(current)) ELSE objects
               /\ LoadClearsSelection(CanParse(current))
       ELSE UNCHANGED <<objects, history, toolVars, activeSelection>>
  /\ UNCHANGED <<timerPending, lineVars, mouseHeld, inputFocused>>
  /\ UNCHANGED <<zoomVars, snapVars, bootVars, asyncVars, textVars, pathVars>>
  /\ GhostRedo(Len(history.redo) > 0)

(***************************************************************************)
(* The line tool.                                                          *)
(***************************************************************************)
LineGeom(x1, y1, x2, y2) == << <<"M", x1, y1>>, <<"L", x2, y2>> >>

LiveLine == Obj("line", <<>>, TRUE)

\* the line the tool holds is no longer mutated: keep its geometry with it
Freeze(objs) ==
  [i \in 1..Len(objs) |->
     IF objs[i].live /\ objs[i].type = "line"
       THEN [objs[i] EXCEPT !.geom = lineToDraw, !.live = FALSE]
       ELSE objs[i]]

LineMouseDown(p) ==
  /\ isDrawingLineMode
  /\ ~mouseHeld
  /\ Len(objects) < MaxObjects
  /\ mouseHeld' = TRUE
  /\ isDrawingLine' = TRUE
  /\ pointerPoints' = <<p[1] * 100, p[2] * 100>>
  /\ lineToDraw' = LineGeom(p[1] * 100, p[2] * 100, p[1] * 100, p[2] * 100)
  /\ objects' = Append(Freeze(objects), LiveLine)
  /\ UNCHANGED <<history, timerPending, toolVars>>
  /\ UNCHANGED <<zoomVars, snapVars, bootVars, asyncVars, selVars, textVars, pathVars>>
  /\ GhostOther("line:down", TRUE)

LineMouseMove(p, shiftKey) ==
  /\ isDrawingLine
  /\ lineToDraw' =
       IF shiftKey
         THEN LET end == SnappedEnd(pointerPoints[1], pointerPoints[2], p)
              IN LineGeom(lineToDraw[1][2], lineToDraw[1][3], end[1], end[2])
         ELSE LineGeom(lineToDraw[1][2], lineToDraw[1][3], p[1] * 100, p[2] * 100)
  /\ UNCHANGED <<histVars, toolVars, isDrawingLine, pointerPoints, mouseHeld>>
  /\ UNCHANGED <<zoomVars, snapVars, bootVars, asyncVars, selVars, textVars, pathVars>>
  /\ GhostArg("line:move", <<p[1], p[2], shiftKey>>, TRUE)

\* mouse:up that commits nothing when the pointer did not move
LineMouseUpSkipsZeroLength ==
  /\ mouseHeld
  /\ isDrawingLine
  /\ HasRoom
  /\ mouseHeld' = FALSE
  /\ isDrawingLine' = FALSE
  /\ objects' = Freeze(objects)
  /\ history' = IF lineToDraw[1][2] = lineToDraw[2][2] /\ lineToDraw[1][3] = lineToDraw[2][3]
                  THEN history ELSE Modified(objects)
  /\ isMouseDown' = FALSE
  /\ isDrawingCurve' = FALSE
  /\ UNCHANGED <<timerPending, toolVars, lineToDraw, pointerPoints>>
  /\ UNCHANGED <<isDrawingPath, pathToDraw, updatedPath, rememberX, rememberY>>
  /\ UNCHANGED <<zoomVars, snapVars, bootVars, asyncVars, selVars, textVars>>
  /\ GhostEdit("line:up")

LineMouseUp ==
  /\ mouseHeld
  /\ isDrawingLine
  /\ HasRoom
  /\ mouseHeld' = FALSE
  /\ isDrawingLine' = FALSE
  /\ objects' = Freeze(objects)
  /\ history' = Modified(objects)
  /\ isMouseDown' = FALSE
  /\ isDrawingCurve' = FALSE
  /\ UNCHANGED <<timerPending, toolVars, lineToDraw, pointerPoints>>
  /\ UNCHANGED <<isDrawingPath, pathToDraw, updatedPath, rememberX, rememberY>>
  /\ UNCHANGED <<zoomVars, snapVars, bootVars, asyncVars, selVars, textVars>>
  /\ GhostEdit("line:up")

(***************************************************************************)
(* The editing session: tool selection, line gestures, the initial         *)
(* snapshot and undo/redo.                                                 *)
(***************************************************************************)
HistAnchor == <<0, 0>>

HistPts == {<<0, 0>>, <<100, 5>>}

\* init(): its steps, in the order it takes them
InitSteps ==
  << "configUndoRedoStack", "initializeToolbar", "initializeMainPanel", "initializeShapes",
     "initializeFreeDrawSettings", "initializeCanvasSettingPanel", "initializeSelectionSettings",
     "initializeCanvas", "initializeLineDrawing", "initializePathDrawing", "initializeTextBoxDrawing",
     "initializeUpload", "initializeCopyPaste", "initializeTipSection", "initializeZoomEvents",
     "extendHideShowToolPanel", "extendNumberInput" >>

SavedDocs == {<<>>, <<toObject(Obj("line", LineGeom(0, 0, 10000, 0), FALSE))>>}

\* the editor after init() with one of the given documents in the browser's store
InitEditorFrom(docs) ==
  /\ \E saved \in docs : objects = loadFromJSON(saved) /\ loadedDoc = saved
  /\ history = EmptyHistory
  /\ timerPending = TRUE
  /\ activeTool = "none"
  /\ isDrawingLineMode = FALSE
  /\ isDrawingPathMode = FALSE
  /\ isDrawingTextMode = FALSE
  /\ activeSelection = 0
  /\ inputFocused = FALSE
  /\ isDrawingText = FALSE
  /\ textboxRect = <<>>
  /\ origX = 0
  /\ origY = 0
  /\ isDrawingLine = FALSE
  /\ lineToDraw = <<>>
  /\ pointerPoints = <<>>
  /\ mouseHeld = FALSE
  /\ lastEvent = "init"
  /\ phase = "edits"
  /\ nEdits = 0
  /\ nUndo = 0
  /\ chain = "none"
  /\ docBeforeUndo = <<>>
  /\ isDrawingPath = FALSE
  /\ pathToDraw = <<>>
  /\ updatedPath = <<>>
  /\ isMouseDown = FALSE
  /\ isDrawingCurve = FALSE
  /\ rememberX = 0
  /\ rememberY = 0
  /\ nPlaced = 0
  /\ zoom = <<100, 0>>
  /\ originalW = 800
  /\ originalH = 600
  /\ width = 80000
  /\ height = 60000
  /\ zoomBefore = <<100, 0>>
  /\ lastArg = 0
  /\ pc = Len(InitSteps)
  /\ canvas = "canvas"
  /\ uncaught = FALSE
  /\ log = {}
  /\ aligning = <<>>
  /\ imageData = [w |-> 0, h |-> 0, data |-> {}]
  /\ realBound = [x1 |-> <<>>, x2 |-> <<>>, y1 |-> <<>>, y2 |-> <<>>, width |-> <<>>, height |-> <<>>]
  /\ loading = 0
  /\ sequential = <<>>

InitEditor == InitEditorFrom(SavedDocs)

Init ==
  /\ InitEditor
  /\ snapIn = 0
  /\ snapOut = 0
  /\ snapDone = FALSE

Next ==
  \/ \E id \in {"select", "line"} : setActiveTool(id)
  \/ InitialSnapshot
  \/ LineMouseDown(HistAnchor)
  \/ \E p \in HistPts : LineMouseMove(p, FALSE)
  \/ LineMouseUp
  \/ undo
  \/ redo

Spec == Init /\ [][Next]_vars

(***************************************************************************)
(* The zoom controller.  A zoom level <<p, off>> is the double that lies   *)
(* off units of the last place from the double nearest to p / 100; every   *)
(* level the handlers produce is a multiple of 5 percent.                  *)
(***************************************************************************)
\* the wheel's range check without its lower bound
WheelAcceptedUpperOnly(u) == ~(u[1] > 300 \/ (u[1] = 300 /\ u[2] > 0))

\* Ctrl and minus stepping by 25 from any level
ZoomOutStep25(z) ==
  IF z[1] - 25 <= 0 THEN <<5, 0>> ELSE <<z[1] - 25, 0>>

minZoom == <<5, 0>>
maxZoom == <<300, 0>>

\* z1 < z2 on doubles
ZoomLess(z1, z2) == z1[1] < z2[1] \/ (z1[1] = z2[1] /\ z1[2] < z2[2])

\* parseInt(canvas.getZoom() * 100): the product of the double by 100, truncated
ParseInt100(z) ==
  IF \/ (z[2] = -1 /\ z[1] \notin {5, 10, 20, 40, 80, 135, 160, 185, 270, 295})
     \/ (z[2] = 0 /\ z[1] \in {115, 205, 230, 255})
    THEN z[1] - 1
    ELSE z[1]

\* canvas.getZoom().toFixed(2) * 100 + zoomAmount, then / 100: the double it yields
WheelDouble(z, d) ==
  <<z[1] + d,
    IF <<z[1], d>> \in {<<55, 5>>, <<55, -5>>, <<110, 5>>, <<220, 5>>, <<220, -5>>, <<245, 5>>, <<245, -5>>} THEN 1
    ELSE IF <<z[1], d>> \in {<<115, -5>>, <<205, 5>>, <<205, -5>>, <<230, 5>>, <<230, -5>>, <<255, -5>>} THEN -1
    ELSE 0>>

RECURSIVE StepDownTo25(_)
StepDownTo25(u) == IF u % 25 = 0 THEN u ELSE StepDownTo25(u - 1)

RECURSIVE StepUpTo25(_)
StepUpTo25(u) == IF u % 25 = 0 THEN u ELSE StepUpTo25(u + 1)

\* Ctrl and minus: the zoom level the handler applies
ZoomOutValue(z) ==
  LET u0 == ParseInt100(z)
      u1 == IF u0 % 25 # 0 THEN StepDownTo25(u0) ELSE u0 - 25
  IN IF u1 <= 0 THEN minZoom ELSE <<u1, 0>>

\* Ctrl and plus: the zoom level the handler applies
ZoomInValue(z) ==
  LET u0 == ParseInt100(z)
      u1 == IF u0 % 25 # 0 THEN StepUpTo25(u0) ELSE u0 + 25
  IN IF ZoomLess(maxZoom, <<u1, 0>>) THEN maxZoom ELSE <<u1, 0>>

\* the wheel's range check: the notch is applied
WheelAccepted(u) == ~(ZoomLess(u, minZoom) \/ ZoomLess(maxZoom, u))

\* this.applyZoom(z): the rendered size follows the document size
applyZoom(z) ==
  /\ zoom' = z
  /\ width' = originalW * z[1]
  /\ height' = originalH * z[1]
  /\ UNCHANGED <<originalW, originalH>>

GhostZoom(ev, arg) ==
  /\ lastEvent' = ev
  /\ zoomBefore' = zoom
  /\ lastArg' = arg
  /\ chain' = "none"
  /\ UNCHANGED <<loadedDoc, phase, nEdits, nUndo, docBeforeUndo, nPlaced>>

KeyZoomOut ==
  /\ IF zoom = minZoom THEN UNCHANGED zoomVars ELSE applyZoom(ZoomOutValue(zoom))
  /\ UNCHANGED <<histVars, toolVars, lineVars, mouseHeld, snapVars, bootVars, asyncVars, selVars, textVars, pathVars>>
  /\ GhostZoom("zoom:out", 0)

KeyZoomIn ==
  /\ IF zoom = maxZoom THEN UNCHANGED zoomVars ELSE applyZoom(ZoomInValue(zoom))
  /\ UNCHANGED <<histVars, toolVars, lineVars, mouseHeld, snapVars, bootVars, asyncVars, selVars, textVars, pathVars>>
  /\ GhostZoom("zoom:in", 0)

KeyZoomReset ==
  /\ applyZoom(<<100, 0>>)
  /\ UNCHANGED <<histVars, toolVars, lineVars, mouseHeld, snapVars, bootVars, asyncVars, selVars, textVars, pathVars>>
  /\ GhostZoom("zoom:reset", 0)

zoomWithMouse(ctrlKey, deltaYPositive) ==
  LET zoomAmount == IF deltaYPositive THEN -5 ELSE 5
      updatedZoom == WheelDouble(zoom, zoomAmount)
  IN /\ IF ctrlKey /\ WheelAccepted(updatedZoom) THEN applyZoom(updatedZoom) ELSE UNCHANGED zoomVars
     /\ UNCHANGED <<histVars, toolVars, lineVars, mouseHeld, snapVars, bootVars, asyncVars, selVars, textVars, pathVars>>
     /\ GhostZoom(IF ctrlKey THEN "zoom:wheel" ELSE "wheel", zoomAmount)

\* the zoom level list of the toolbar
ZoomPresets == {5, 10, 25, 50, 75, 100, 150, 200, 250, 300}

SelectZoomLevel(item) ==
  /\ applyZoom(<<item, 0>>)
  /\ UNCHANGED <<histVars, toolVars, lineVars, mouseHeld, snapVars, bootVars, asyncVars, selVars, textVars, pathVars>>
  /\ GhostZoom("zoom:preset", item)

\* the width and height inputs of the canvas settings panel
setDimension(w, h) ==
  /\ HasRoom
  /\ width' = w * 100
  /\ originalW' = w
  /\ height' = h * 100
  /\ originalH' = h
  /\ history' = Modified(objects)
  /\ UNCHANGED <<zoom, objects, timerPending, toolVars, lineVars, mouseHeld, snapVars, bootVars, asyncVars, selVars, textVars, pathVars>>
  /\ GhostEdit("dimension")

Widths == {800, 1024}
Heights == {600, 480}

NextZoom ==
  \/ KeyZoomOut
  \/ KeyZoomIn
  \/ KeyZoomReset
  \/ \E c \in BOOLEAN, dy \in BOOLEAN : zoomWithMouse(c, dy)
  \/ \E item \in ZoomPresets : SelectZoomLevel(item)
  \/ \E w \in Widths, h \in Heights : setDimension(w, h)

SpecZoom == Init /\ [][NextZoom]_vars

(***************************************************************************)
(* Claims about the zoom controller.                                       *)
(***************************************************************************)
ZoomInRange == ~ZoomLess(zoom, minZoom) /\ ~ZoomLess(maxZoom, zoom)

\* C5: after any sequence of keyboard zooms, wheel notches and preset
\* selections the zoom level is within [0.05, 3.0], and a wheel notch whose
\* result would leave that range leaves the zoom level unchanged.
C5_ZoomStaysInRange ==
  /\ ZoomInRange
  /\ (lastEvent = "zoom:wheel" /\ zoomBefore[1] + lastArg \notin 5..300) => zoom = zoomBefore

\* a wheel notch at the maximum was ignored
C5_Witness ==
  lastEvent = "zoom:wheel" /\ lastArg = 5 /\ zoomBefore = maxZoom /\ zoom = maxZoom

\* C6 as stated: from every zoom level whose whole-percent value is not a
\* multiple of 25, one keyboard decrement gives a whole-percent value that is
\* a multiple of 25 and at most the original.
C6_DecrementLandsOn25 ==
  (lastEvent = "zoom:out" /\ ParseInt100(zoomBefore) % 25 # 0)
    => (zoom[1] % 25 = 0 /\ ~ZoomLess(zoomBefore, zoom))

\* C6 amended: that holds from 25 percent up; below 25 percent the decrement
\* gives the minimum, 0.05, which is at most the original.
C6_DecrementLandsOn25Or5 ==
  (lastEvent = "zoom:out" /\ ParseInt100(zoomBefore) % 25 # 0)
    => /\ ~ZoomLess(zoomBefore, zoom)
       /\ IF ParseInt100(zoomBefore) > 25 THEN zoom[1] % 25 = 0 /\ zoom[2] = 0 ELSE zoom = minZoom

\* a decrement from 110 percent landed on 100 percent
C6_Witness ==
  lastEvent = "zoom:out" /\ zoomBefore[1] = 110 /\ zoom = <<100, 0>>

(***************************************************************************)
(* The line tool with the angle snap, on a few anchors and pointer         *)
(* positions.                                                              *)
(***************************************************************************)
LineAnchors == {<<0, 0>>, <<100, 30>>}
LineTargets == {<<100, 5>>, <<100, 0>>, <<0, 0>>}

NextLine ==
  \/ \E id \in {"select", "line"} : setActiveTool(id)
  \/ InitialSnapshot
  \/ \E p \in LineAnchors : LineMouseDown(p)
  \/ \E p \in LineTargets, shiftKey \in BOOLEAN : LineMouseMove(p, shiftKey)
  \/ LineMouseUp

SpecLine == Init /\ [][NextLine]_vars

(***************************************************************************)
(* The angle snap as a function of the angle, on every half degree of      *)
(* (-180, 180].                                                            *)
(***************************************************************************)
AngleDomain == {500 * k : k \in -359..360}

InitSnap ==
  /\ InitEditor
  /\ snapIn \in AngleDomain
  /\ snapOut = 0
  /\ snapDone = FALSE

ApplySnap ==
  /\ ~snapDone
  /\ snapOut' = SnapAngle(snapIn)
  /\ snapDone' = TRUE
  /\ UNCHANGED <<snapIn, histVars, toolVars, lineVars, pathVars, mouseHeld, zoomVars, selVars, textVars, bootVars, asyncVars>>
  /\ GhostOther("snap", FALSE)

NextSnap == ApplySnap

SpecSnap == InitSnap /\ [][NextSnap]_vars

(***************************************************************************)
(* Claims about the angle snap.                                            *)
(***************************************************************************)

\* C7: with Shift held, the direction is snapped to the multiple of 15
\* degrees that is nearest to the direction angle.
C7_SnapsToNearestMultiple ==
  snapDone => (snapOut % 15000 = 0 /\ Abs(snapOut - snapIn) <= 7500)

\* the exact half-way angles: the odd multiples of 7.5 degrees
Ties == {a \in AngleDomain : a % 7500 = 0 /\ a % 15000 # 0}

\* C8: every exact half-way angle, positive or negative, is resolved to the
\* same side: each is moved by what the one at hand is moved by.
C8_TiesResolveOneWay ==
  (snapDone /\ snapIn \in Ties)
    => /\ Abs(snapOut - snapIn) = 7500
       /\ \A a \in Ties : SnapAngle(a) - a = snapOut - snapIn

\* the half-way angle -7.5 degrees was snapped
C8_Witness ==
  snapDone /\ snapIn = -7500 /\ snapOut = 0

\* C9 as stated: anchored at (0,0), with Shift held and the pointer at
\* (100,5), the line's snapped endpoint is (100,0).
C9_SnappedEndpointIs100 ==
  (lastEvent = "line:move" /\ lastArg = <<100, 5, TRUE>> /\ pointerPoints = <<0, 0>>)
    => lineToDraw[2] = <<"L", 10000, 0>>

\* C9 amended: the snapped endpoint is on the 0 degree direction at the
\* pointer's distance from the anchor, sqrt(100^2 + 5^2) = 100.12 to the
\* hundredth: (100.12, 0).
C9_SnappedEndpointKeepsDistance ==
  (lastEvent = "line:move" /\ lastArg = <<100, 5, TRUE>> /\ pointerPoints = <<0, 0>>)
    => lineToDraw[2] = <<"L", 10012, 0>>

\* the line anchored at (0,0) was moved to (100,5) with Shift held
C9_Witness ==
  /\ lastEvent = "line:move" /\ lastArg = <<100, 5, TRUE>> /\ pointerPoints = <<0, 0>>
  /\ isDrawingLine /\ Len(objects) > 0 /\ objects[Len(objects)].live

(***************************************************************************)
(* The path tool.  A segment is <<"M", x, y>>, <<"L", x, y>> or            *)
(* <<"Q", cx, cy, x, y>>.                                                  *)
(***************************************************************************)
Front(q) == SubSeq(q, 1, Len(q) - 1)

LivePath == Obj("path", <<>>, TRUE)

IsLivePath(o) == o.live /\ o.type = "path"

\* the range test on the distance instead of on each coordinate
inRangeEuclid(radius, cursorX, cursorY, targetX, targetY) ==
  (cursorX - targetX) * (cursorX - targetX) + (cursorY - targetY) * (cursorY - targetY)
    <= radius * radius

inRange(radius, cursorX, cursorY, targetX, targetY) ==
  Abs(cursorX - targetX) <= radius /\ Abs(cursorY - targetY) <= radius

SetMin(S) == CHOOSE m \in S : \A n \in S : m <= n

GhostPath(ev, arg, n, pushed) ==
  /\ lastEvent' = ev
  /\ lastArg' = arg
  /\ nPlaced' = n
  /\ chain' = "none"
  /\ IF pushed /\ phase = "edits"
       THEN nEdits' = nEdits + 1 /\ phase' = phase
       ELSE nEdits' = nEdits /\ phase' = IF phase = "undos" \/ pushed THEN "other" ELSE phase
  /\ UNCHANGED <<loadedDoc, nUndo, docBeforeUndo>>
  /\ zoomBefore' = zoom

\* mouse:down whose first point starts the path with a Line segment
PathMouseDownLineFirst(p) ==
  /\ isDrawingPathMode
  /\ ~mouseHeld
  /\ mouseHeld' = TRUE
  /\ isMouseDown' = TRUE
  /\ isDrawingPath' = TRUE
  /\ IF pathToDraw = <<>>
       THEN /\ Len(objects) < MaxObjects
            /\ pathToDraw' = << <<"L", p[1] * 100, p[2] * 100>>, <<"L", p[1] * 100, p[2] * 100>> >>
            /\ objects' = Append(objects, LivePath)
            /\ GhostPath("path:down", 0, 1, FALSE)
       ELSE /\ Len(pathToDraw) < MaxSegs
            /\ pathToDraw' = Append(pathToDraw, <<"L", p[1] * 100, p[2] * 100>>)
            /\ objects' = objects
            /\ GhostPath("path:down", 0, nPlaced + 1, FALSE)
  /\ UNCHANGED <<history, timerPending, toolVars, lineVars, updatedPath, isDrawingCurve, rememberX, rememberY>>
  /\ UNCHANGED <<zoomVars, snapVars, bootVars, asyncVars, selVars, textVars>>

PathMouseDown(p) ==
  /\ isDrawingPathMode
  /\ ~mouseHeld
  /\ mouseHeld' = TRUE
  /\ isMouseDown' = TRUE
  /\ isDrawingPath' = TRUE
  /\ IF pathToDraw = <<>>
       THEN /\ Len(objects) < MaxObjects
            /\ pathToDraw' = << <<"M", p[1] * 100, p[2] * 100>>, <<"L", p[1] * 100, p[2] * 100>> >>
            /\ objects' = Append(objects, LivePath)
            /\ GhostPath("path:down", 0, 1, FALSE)
       ELSE /\ Len(pathToDraw) < MaxSegs
            /\ pathToDraw' = Append(pathToDraw, <<"L", p[1] * 100, p[2] * 100>>)
            /\ objects' = objects
            /\ GhostPath("path:down", 0, nPlaced + 1, FALSE)
  /\ UNCHANGED <<history, timerPending, toolVars, lineVars, updatedPath, isDrawingCurve, rememberX, rememberY>>
  /\ UNCHANGED <<zoomVars, snapVars, bootVars, asyncVars, selVars, textVars>>

PathMouseMove(p, shiftKey) ==
  /\ isDrawingPathMode
  /\ isDrawingPath
  /\ LET px == p[1] * 100
         py == p[2] * 100
         up0 == IF ~isDrawingCurve THEN <<"L", px, py>> ELSE updatedPath
         path1 == Front(pathToDraw)
         \* shift key is down, jump angles
         lastPoint == path1[Len(path1)]
         end == SnappedEnd(lastPoint[2], lastPoint[3], p)
         up1 == IF shiftKey /\ ~isDrawingCurve THEN <<"L", end[1], end[2]>> ELSE up0
         \* detect and snap to closest line if within range
         snapPoints == Front(path1)
         Hit(q) == \/ q[1] \in {"L", "M"} /\ inRange(1000, px, py, q[2], q[3])
                   \/ q[1] = "Q" /\ inRange(1000, px, py, q[4], q[5])
         hits == {i \in 1..Len(snapPoints) : Hit(snapPoints[i])}
         first == snapPoints[SetMin(hits)]
         up2 == IF Len(path1) > 1 /\ ~isDrawingCurve /\ hits # {}
                  THEN IF first[1] = "Q" THEN <<"L", first[4], first[5]>> ELSE <<"L", first[2], first[3]>>
                  ELSE up1
         \* curve creating
         startCurve == isMouseDown /\ ~isDrawingCurve /\ Len(path1) > 1
         lastPath == path1[Len(path1)]
         endX == IF lastPath[1] = "Q" THEN lastPath[4] ELSE lastPath[2]
         endY == IF lastPath[1] = "Q" THEN lastPath[5] ELSE lastPath[3]
         up3 == IF startCurve THEN <<"Q", endX, endY, endX, endY>>
                ELSE IF isMouseDown /\ isDrawingCurve
                  THEN <<"Q", rememberX - (px - up2[4]), rememberY - (py - up2[5]), rememberX, rememberY>>
                  ELSE up2
         path2 == IF startCurve THEN Front(path1) ELSE path1
     IN /\ pathToDraw' = Append(path2, up3)
        /\ updatedPath' = up3
        /\ isDrawingCurve' = (isDrawingCurve \/ startCurve)
        /\ rememberX' = IF startCurve THEN endX ELSE rememberX
        /\ rememberY' = IF startCurve THEN endY ELSE rememberY
  /\ UNCHANGED <<histVars, toolVars, lineVars, isDrawingPath, isMouseDown, mouseHeld>>
  /\ UNCHANGED <<zoomVars, snapVars, bootVars, asyncVars, selVars, textVars>>
  /\ GhostPath("path:move", <<p[1], p[2], shiftKey>>, nPlaced, FALSE)

PathMouseUp(p) ==
  /\ isDrawingPathMode
  /\ mouseHeld
  /\ mouseHeld' = FALSE
  /\ isMouseDown' = FALSE
  /\ IF isDrawingCurve
       THEN IF pathToDraw = <<>>
              THEN UNCHANGED <<pathToDraw, isDrawingCurve>>    \* pathToDraw.path of null throws
              ELSE /\ pathToDraw' = Append(pathToDraw, <<"L", p[1] * 100, p[2] * 100>>)
                   /\ isDrawingCurve' = FALSE
       ELSE /\ UNCHANGED pathToDraw
            /\ isDrawingCurve' = FALSE
  /\ UNCHANGED <<histVars, toolVars, lineVars, isDrawingPath, updatedPath, rememberX, rememberY>>
  /\ UNCHANGED <<zoomVars, snapVars, bootVars, asyncVars, selVars, textVars>>
  /\ GhostPath("path:up", 0, nPlaced, FALSE)

\* cancelDrawing() with only the last point left: the path is removed from the canvas
RemovePath(objs) == SelectSeq(objs, LAMBDA o : ~IsLivePath(o))

\* cancelDrawing() otherwise: the path stays, without its last segment
KeepPath(objs, path) ==
  [i \in 1..Len(objs) |->
     IF IsLivePath(objs[i]) THEN [objs[i] EXCEPT !.geom = path, !.live = FALSE] ELSE objs[i]]

cancelDrawing ==
  LET path1 == Front(pathToDraw)
      objs == IF Len(path1) > 1 THEN KeepPath(objects, path1) ELSE RemovePath(objects)
  IN /\ HasRoom
     /\ objects' = objs
     /\ history' = HistoryPush(history, stringify(toJSON(objs)))
     /\ pathToDraw' = <<>>
     /\ isDrawingPath' = FALSE
     /\ UNCHANGED <<timerPending, toolVars, lineVars, updatedPath, isMouseDown, isDrawingCurve, rememberX, rememberY, mouseHeld>>
     /\ UNCHANGED <<zoomVars, snapVars, bootVars, asyncVars, selVars, textVars>>
     /\ GhostPath("path:cancel",
                  [placed |-> nPlaced, path |-> pathToDraw, count |-> Len(objects), curve |-> isDrawingCurve],
                  0, TRUE)

\* the Escape key
EscapeKey ==
  /\ isDrawingPath
  /\ cancelDrawing

\* a pointer-down outside the canvas
OutsideMouseDown ==
  /\ isDrawingPath
  /\ ~mouseHeld
  /\ cancelDrawing

PathPts == {<<0, 0>>, <<100, 0>>}

NextPath ==
  \/ \E id \in {"select", "path"} : setActiveTool(id)
  \/ InitialSnapshot
  \/ \E p \in PathPts : PathMouseDown(p)
  \/ \E p \in PathPts : PathMouseMove(p, FALSE)
  \/ \E p \in PathPts : PathMouseUp(p)
  \/ EscapeKey
  \/ OutsideMouseDown

SpecPath == Init /\ [][NextPath]_vars

(***************************************************************************)
(* Claims about the path tool.                                             *)
(***************************************************************************)

\* C10: a cancel with one point placed removes the whole path from the
\* canvas; a cancel with two or more points placed, in any drawing state,
\* leaves the path on the canvas with every placed point and without the
\* preview segment.
C10_CancelKeepsPlacedPoints ==
  lastEvent = "path:cancel"
    => IF lastArg.placed = 1
         THEN Len(objects) = lastArg.count - 1
         ELSE /\ Len(objects) = lastArg.count
              /\ objects[Len(objects)].type = "path"
              /\ objects[Len(objects)].geom = SubSeq(lastArg.path, 1, lastArg.placed)

(***************************************************************************)
(* History corruption: a stored snapshot no longer parses.                 *)
(***************************************************************************)
CorruptSnapshot ==
  /\ \/ \E i \in 1..Len(history.undo) :
          /\ CanParse(history.undo[i])
          /\ history' = [history EXCEPT !.undo[i] = Malformed]
     \/ \E i \in 1..Len(history.redo) :
          /\ CanParse(history.redo[i])
          /\ history' = [history EXCEPT !.redo[i] = Malformed]
  /\ UNCHANGED <<objects, timerPending, toolVars, lineVars, mouseHeld>>
  /\ UNCHANGED <<zoomVars, snapVars, bootVars, asyncVars, selVars, textVars, pathVars>>
  /\ GhostOther("corrupt", TRUE)

NextCorrupt == Next \/ CorruptSnapshot

SpecCorrupt == Init /\ [][NextCorrupt]_vars

(***************************************************************************)
(* Claims about the history.                                               *)
(***************************************************************************)

\* C1: after N edits that each pushed a snapshot, N calls of undo() leave the
\* canvas showing the document as it was before the first edit.
C1_UndoAllEditsRestoresLoaded ==
  (phase = "undos" /\ nUndo = nEdits) => Doc = loadedDoc

\* C2: a redo() that follows an undo() leaves the canvas showing the document
\* it showed immediately before that undo.
C2_RedoRestoresCanvasBeforeUndo ==
  chain = "redone" => Doc = docBeforeUndo

\* C3: undo() at the oldest entry and redo() at the newest entry change
\* neither the canvas document nor the undo and redo lists.
C3_NoOpAtEnds ==
  [][ /\ (lastEvent' = "undo" /\ Len(history.undo) = 0)
         => (objects' = objects /\ history' = history)
      /\ (lastEvent' = "redo" /\ Len(history.redo) = 0)
         => (objects' = objects /\ history' = history) ]_vars

\* an undo() was called at the oldest entry of a history that holds a snapshot
C3_Witness ==
  /\ lastEvent = "undo"
  /\ Len(history.undo) = 0 /\ Len(history.redo) = 0 /\ Len(history.latest) = 1
  /\ Len(objects) > 0

\* C4: undo() or redo() on a snapshot that fails to parse is a no-op: the
\* canvas and the undo and redo lists are as before the call.
C4_MalformedIsNoOp ==
  [][ /\ (lastEvent' = "undo" /\ Len(history.undo) > 0 /\ ~CanParse(history.undo[Len(history.undo)]))
         => (objects' = objects /\ history' = history)
      /\ (lastEvent' = "redo" /\ Len(history.redo) > 0 /\ ~CanParse(history.redo[Len(history.redo)]))
         => (objects' = objects /\ history' = history) ]_vars

(***************************************************************************)
(* Selecting an object with the pointer.                                   *)
(***************************************************************************)
\* selection:created / selection:updated: setActiveSelection(e.target), which
\* calls setActiveTool('select'); objects are selectable in no drawing mode
SelectObject(i) ==
  /\ ~mouseHeld
  /\ ~isDrawingLineMode /\ ~isDrawingPathMode /\ ~isDrawingTextMode
  /\ i \in 1..Len(objects)
  /\ ~objects[i].live
  /\ activeSelection' = i
  /\ activeTool' = "select"
  /\ UNCHANGED <<isDrawingLineMode, isDrawingPathMode, isDrawingTextMode>>
  /\ UNCHANGED <<histVars, lineVars, pathVars, textVars, mouseHeld, inputFocused, zoomVars, snapVars, bootVars, asyncVars>>
  /\ GhostArg("select", i, FALSE)

(***************************************************************************)
(* Image effects.  A filter is <<kind, param>>: "Blur" with its blur in    *)
(* hundredths, "Brightness" and "Saturation" with their value in           *)
(* hundredths (-100..100), "Gamma" with its <<r, g, b>> in tenths.  A      *)
(* slider value read back from a filter is <<v, off>>: the double that     *)
(* lies off units of the last place from the integer v.                    *)
(***************************************************************************)
\* (v / 100) * 100 differs from v in the last place for these v
BlurOff(v) ==
  IF v \in {7, 14, 28, 55, 56} THEN 1
  ELSE IF v \in {29, 57, 58} THEN -1
  ELSE 0

\* (((v / 100) * 2 - 1 + 1) / 2) * 100 differs from v in the last place for these v
HalfOff(v) ==
  IF v \in {1, 2, 3, 7, 8, 14, 15, 16, 17, 28, 55, 56} THEN 1
  ELSE IF v \in {4, 5, 9, 10, 11, 21, 22, 29, 57, 58} THEN -1
  ELSE 0

\* Math.round((v * 0.022) * 10): tenths of the gamma of slider value v;
\* 25 * 0.022 * 10 is the double just below 5.5
GammaTenths(v) == IF v = 25 THEN 5 ELSE (22 * v + 50) \div 100

\* Math.round((t / 10) / 0.022): the slider value of a gamma of t tenths
GammaRead(t) == (100 * t + 11) \div 22

\* filters.find(x => x[kind]): the first filter of that kind, <<>> when there is none
FindFilter(filters, kind) ==
  LET hits == {i \in 1..Len(filters) : filters[i][1] = kind /\ (kind = "Gamma" \/ filters[i][2] # 0)}
  IN IF hits = {} THEN <<>> ELSE filters[CHOOSE i \in hits : \A j \in hits : i <= j]

getCurrentEffect(o) ==
  LET hasBlur == FindFilter(o.filters, "Blur")
      hasBrightness == FindFilter(o.filters, "Brightness")
      hasSaturation == FindFilter(o.filters, "Saturation")
      hasGamma == FindFilter(o.filters, "Gamma")
      FromHalf(param) == <<(param + 100) \div 2, HalfOff((param + 100) \div 2)>>
  IN [opacity |-> <<o.opacity, 0>>,
      blur |-> IF hasBlur = <<>> THEN <<0, 0>> ELSE <<hasBlur[2], BlurOff(hasBlur[2])>>,
      brightness |-> IF hasBrightness = <<>> THEN <<50, 0>> ELSE FromHalf(hasBrightness[2]),
      saturation |-> IF hasSaturation = <<>> THEN <<50, 0>> ELSE FromHalf(hasSaturation[2]),
      gamma |-> IF hasGamma = <<>>
                  THEN [r |-> <<45, 0>>, g |-> <<45, 0>>, b |-> <<45, 0>>]
                  ELSE [r |-> <<GammaRead(hasGamma[2][1]), 0>>,
                        g |-> <<GammaRead(hasGamma[2][2]), 0>>,
                        b |-> <<GammaRead(hasGamma[2][3]), 0>>]]

Effects == {"blur", "brightness", "saturation", "gamma.r", "gamma.g", "gamma.b"}

\* the value of one effect in the record getCurrentEffect returns
EffectOf(effects, effect) ==
  IF effect = "gamma.r" THEN effects.gamma.r
  ELSE IF effect = "gamma.g" THEN effects.gamma.g
  ELSE IF effect = "gamma.b" THEN effects.gamma.b
  ELSE effects[effect]

getUpdatedFilter(effects, effect, value) ==
  LET updatedEffects ==
        IF effect = "gamma.r" THEN [effects EXCEPT !.gamma.r = <<value, 0>>]
        ELSE IF effect = "gamma.g" THEN [effects EXCEPT !.gamma.g = <<value, 0>>]
        ELSE IF effect = "gamma.b" THEN [effects EXCEPT !.gamma.b = <<value, 0>>]
        ELSE [effects EXCEPT ![effect] = <<value, 0>>]
      e == updatedEffects
      blurF == IF e.blur[1] > 0 \/ (e.blur[1] = 0 /\ e.blur[2] > 0)
                 THEN << <<"Blur", e.blur[1]>> >> ELSE <<>>
      brightF == IF e.brightness # <<50, 0>>
                   THEN << <<"Brightness", 2 * e.brightness[1] - 100>> >> ELSE <<>>
      satF == IF e.saturation # <<50, 0>>
                THEN << <<"Saturation", 2 * e.saturation[1] - 100>> >> ELSE <<>>
      gammaF == IF e.gamma.r # <<45, 0>> \/ e.gamma.g # <<45, 0>> \/ e.gamma.b # <<45, 0>>
                  THEN << <<"Gamma", <<GammaTenths(e.gamma.r[1]), GammaTenths(e.gamma.g[1]), GammaTenths(e.gamma.b[1])>> >> >>
                  ELSE <<>>
  IN blurF \o brightF \o satF \o gammaF

\* the change handler of an effect slider
ChangeEffect(effect, value) ==
  /\ activeSelection # 0
  /\ objects[activeSelection].type = "image"
  /\ HistorySize(history) - (IF timerPending THEN 0 ELSE 1) < MaxEffectChanges
  /\ LET currentEffect == getCurrentEffect(objects[activeSelection])
         objs == [objects EXCEPT ![activeSelection].filters = getUpdatedFilter(currentEffect, effect, value)]
     IN /\ objects' = objs
        /\ history' = Modified(objs)
  /\ UNCHANGED <<timerPending, toolVars, lineVars, pathVars, textVars, selVars, mouseHeld, zoomVars, snapVars, bootVars, asyncVars>>
  /\ lastEvent' = "effect"
  /\ lastArg' = <<effect, value>>
  /\ chain' = "none"
  /\ UNCHANGED <<loadedDoc, phase, nEdits, nUndo, docBeforeUndo, nPlaced>>
  /\ zoomBefore' = zoom

SliderValues == 0..100

\* an image as it is stored with the filters of the given slider positions
ImageWith(blur, gammaR) ==
  LET neutral == getCurrentEffect(Obj("image", <<0, 0, 100, 100>>, FALSE))
      f1 == getUpdatedFilter(neutral, "blur", blur)
      o1 == [Obj("image", <<0, 0, 100, 100>>, FALSE) EXCEPT !.filters = f1]
  IN toObject([o1 EXCEPT !.filters = getUpdatedFilter(getCurrentEffect(o1), "gamma.r", gammaR)])

ImageDocs == {<<ImageWith(0, 45)>>, <<ImageWith(30, 45)>>, <<ImageWith(30, 100)>>, <<ImageWith(0, 46)>>}

InitEffect ==
  /\ InitEditorFrom(ImageDocs)
  /\ snapIn = 0
  /\ snapOut = 0
  /\ snapDone = FALSE

NextEffect ==
  \/ InitialSnapshot
  \/ \E i \in 1..MaxObjects : SelectObject(i)
  \/ \E effect \in Effects, value \in SliderValues : ChangeEffect(effect, value)

SpecEffect == InitEffect /\ [][NextEffect]_vars

(***************************************************************************)
(* Claims about the image effects.                                         *)
(***************************************************************************)

\* C11: after the slider of an effect was set to v, the value read back for
\* that effect from the selection's filters is v (at the neutral value no
\* filter is produced and the default, which is v, is read).
C11_EffectRoundTrips ==
  lastEvent = "effect"
    => EffectOf(getCurrentEffect(objects[activeSelection]), lastArg[1]) = <<lastArg[2], 0>>

(***************************************************************************)
(* Keyboard shortcuts and the focus of the page's text inputs.             *)
(***************************************************************************)
FocusInput ==
  /\ ~inputFocused
  /\ inputFocused' = TRUE
  /\ UNCHANGED <<histVars, toolVars, lineVars, pathVars, textVars, activeSelection, mouseHeld, zoomVars, snapVars, bootVars, asyncVars>>
  /\ GhostOther("focus", FALSE)

BlurInput ==
  /\ inputFocused
  /\ inputFocused' = FALSE
  /\ UNCHANGED <<histVars, toolVars, lineVars, pathVars, textVars, activeSelection, mouseHeld, zoomVars, snapVars, bootVars, asyncVars>>
  /\ GhostOther("blur", FALSE)

\* geometry moved by <<dx, dy>> pixels: object.left += dx, object.top += dy
Shift(seg, dx, dy) ==
  IF seg[1] = "Q" THEN <<"Q", seg[2] + dx * 100, seg[3] + dy * 100, seg[4] + dx * 100, seg[5] + dy * 100>>
  ELSE <<seg[1], seg[2] + dx * 100, seg[3] + dy * 100>>

Nudge(o, dx, dy) ==
  IF o.type \in {"line", "path"}
    THEN [o EXCEPT !.geom = [i \in 1..Len(o.geom) |-> Shift(o.geom[i], dx, dy)]]
    ELSE [o EXCEPT !.geom = [i \in 1..Len(o.geom) |->
                               IF i = 1 THEN o.geom[i] + dx * 100
                               ELSE IF i = 2 THEN o.geom[i] + dy * 100 ELSE o.geom[i]]]

ArrowKeys == {37, 38, 39, 40}

\* the keydown handler that moves the active object with the arrow keys
ArrowKey(key) ==
  /\ IF inputFocused \/ activeSelection = 0
       THEN UNCHANGED <<objects, history>>
       ELSE /\ HasRoom
            /\ LET dx == IF key = 37 THEN -1 ELSE IF key = 39 THEN 1 ELSE 0
                   dy == IF key = 38 THEN -1 ELSE IF key = 40 THEN 1 ELSE 0
                   objs == [objects EXCEPT ![activeSelection] = Nudge(@, dx, dy)]
               IN /\ objects' = objs
                  /\ history' = Modified(objs)
  /\ UNCHANGED <<timerPending, toolVars, lineVars, pathVars, textVars, selVars, mouseHeld, zoomVars, snapVars, bootVars, asyncVars>>
  /\ GhostArg("key:arrow", key, TRUE)

RemoveAt(objs, i) == SubSeq(objs, 1, i - 1) \o SubSeq(objs, i + 1, Len(objs))

\* the keydown handler of the Delete key: the active objects are removed, the
\* selection is discarded (selection:cleared calls setActiveTool('select'))
DeleteKey ==
  /\ IF inputFocused
       THEN UNCHANGED <<objects, history, toolVars, activeSelection>>
       ELSE /\ HasRoom
            /\ LET objs == IF activeSelection = 0 THEN objects ELSE RemoveAt(objects, activeSelection)
               IN /\ objects' = objs
                  /\ history' = Modified(objs)
            /\ activeSelection' = 0
            /\ IF activeSelection # 0
                 THEN /\ activeTool' = "select"
                      /\ isDrawingLineMode' = FALSE
                      /\ isDrawingPathMode' = FALSE
                      /\ isDrawingTextMode' = FALSE
                 ELSE UNCHANGED toolVars
  /\ UNCHANGED <<timerPending, lineVars, pathVars, textVars, inputFocused, mouseHeld, zoomVars, snapVars, bootVars, asyncVars>>
  /\ GhostOther("key:delete", TRUE)

\* ctrZY: Ctrl+Z (90) and Ctrl+Y (89), unless a text input has the focus
ctrZY(key) ==
  IF ~inputFocused
    THEN IF key = 90 THEN undo ELSE redo
    ELSE /\ UNCHANGED <<histVars, toolVars, lineVars, pathVars, textVars, selVars, mouseHeld, zoomVars, snapVars, bootVars, asyncVars>>
         /\ GhostOther(IF key = 90 THEN "undo" ELSE "redo", FALSE)

\* the arrow key pressed in a session: left
KeysPressed == {37}

InitKeys ==
  /\ InitEditorFrom(SavedDocs \ {<<>>})
  /\ snapIn = 0
  /\ snapOut = 0
  /\ snapDone = FALSE

NextKeys ==
  \/ InitialSnapshot
  \/ \E i \in 1..MaxObjects : SelectObject(i)
  \/ FocusInput
  \/ BlurInput
  \/ \E key \in KeysPressed : ArrowKey(key)
  \/ DeleteKey
  \/ \E key \in {90, 89} : ctrZY(key)
  \/ KeyZoomOut
  \/ KeyZoomIn
  \/ KeyZoomReset

SpecKeys == InitKeys /\ [][NextKeys]_vars

(***************************************************************************)
(* Claims about the keyboard shortcuts.                                    *)
(***************************************************************************)
KeyEvents == {"key:arrow", "key:delete", "undo", "redo", "zoom:out", "zoom:in", "zoom:reset"}

\* C12: while a text input or textarea has the focus, no keyboard shortcut
\* (arrow keys, Delete, the undo and redo chords, the zoom chords) changes
\* the canvas, the history or the zoom level.
C12_FocusSuppressesShortcuts ==
  [][ (inputFocused /\ lastEvent' \in KeyEvents)
        => (objects' = objects /\ history' = history /\ zoom' = zoom) ]_vars

(***************************************************************************)
(* Style changes of the selection panel.                                   *)
(***************************************************************************)
Colors == {"rgb(255, 0, 0)"}
Orientations == {"linear"}
Opacities == {50}

\* the colour picker's move callback: every active object gets the colour,
\* then object:modified is triggered (also with no active object)
FillColor(hex) ==
  /\ HasRoom
  /\ LET objs == IF activeSelection = 0 THEN objects
                 ELSE [objects EXCEPT ![activeSelection].fill = hex]
     IN /\ objects' = objs
        /\ history' = Modified(objs)
  /\ UNCHANGED <<timerPending, toolVars, lineVars, pathVars, textVars, selVars, mouseHeld, zoomVars, snapVars, bootVars, asyncVars>>
  /\ GhostArg("style:fill", hex, TRUE)

\* updateGradientFill, called when the gradient picker, the orientation or
\* the angle changes: the fill is set on the active selection and the
\* canvas is rendered; with no selection the call throws before any change
updateGradientFill(orientation) ==
  /\ objects' = IF activeSelection = 0 THEN objects
                ELSE [objects EXCEPT ![activeSelection].fill = orientation]
  /\ UNCHANGED <<history, timerPending, toolVars, lineVars, pathVars, textVars, selVars, mouseHeld, zoomVars, snapVars, bootVars, asyncVars>>
  /\ GhostArg("style:gradient", orientation, activeSelection # 0)

\* the opacity slider's change handler; with no selection the set throws
\* before object:modified is triggered
OpacityChange(opacity) ==
  /\ IF activeSelection = 0
       THEN UNCHANGED <<objects, history>>
       ELSE /\ HasRoom
            /\ LET objs == [objects EXCEPT ![activeSelection].opacity = opacity]
               IN /\ objects' = objs
                  /\ history' = Modified(objs)
  /\ UNCHANGED <<timerPending, toolVars, lineVars, pathVars, textVars, selVars, mouseHeld, zoomVars, snapVars, bootVars, asyncVars>>
  /\ GhostArg("style:opacity", opacity, activeSelection # 0)

NextEdit ==
  \/ InitialSnapshot
  \/ \E i \in 1..MaxObjects : SelectObject(i)
  \/ \E key \in KeysPressed : ArrowKey(key)
  \/ DeleteKey
  \/ \E hex \in Colors : FillColor(hex)
  \/ \E orientation \in Orientations : updateGradientFill(orientation)
  \/ \E opacity \in Opacities : OpacityChange(opacity)

SpecEdit == InitKeys /\ [][NextEdit]_vars

(***************************************************************************)
(* Claims about the history entries of edit events.                        *)
(***************************************************************************)
EditEvents == {"key:arrow", "key:delete", "style:fill", "style:gradient", "style:opacity"}

\* C13: every discrete edit event applied to the selected object (an arrow
\* key move, a delete, a fill colour, a gradient fill, an opacity change)
\* pushes exactly one history entry, the snapshot of the canvas after it.
C13_EditPushesOneEntry ==
  [][ (lastEvent' \in EditEvents /\ activeSelection # 0 /\ ~inputFocused)
        => history' = HistoryPush(history, stringify(toJSON(objects'))) ]_vars

(***************************************************************************)
(* Claims about the history entries of path drawing.                       *)
(***************************************************************************)
\* a pointer-down that places a point, a pointer-up that commits a curve,
\* a cancel
PathCommitted ==
  \/ lastEvent' = "path:down"
  \/ lastEvent' = "path:up" /\ isDrawingCurve /\ pathToDraw # <<>>
  \/ lastEvent' = "path:cancel"

\* C14: in path drawing every committed mutation of the path (a point placed
\* by pointer-down, a curve committed by pointer-up, a cancel) triggers the
\* document-modified event, so the history gets the snapshot of the canvas.
C14_PathMutationPushes ==
  [][ PathCommitted => history' = HistoryPush(history, stringify(toJSON(objects'))) ]_vars

(***************************************************************************)
(* The text-box tool.  The rubber-band rectangle is <<left, top, width,    *)
(* height>> and a text block is <<left, top, width>>, in hundredths of a   *)
(* pixel.                                                                  *)
(***************************************************************************)
LiveRect == Obj("rect", <<>>, TRUE)

IsLiveRect(o) == o.live /\ o.type = "rect"

TextMouseDown(p) ==
  /\ isDrawingTextMode
  /\ ~mouseHeld
  /\ Len(objects) < MaxObjects
  /\ mouseHeld' = TRUE
  /\ isDrawingText' = TRUE
  /\ origX' = p[1] * 100
  /\ origY' = p[2] * 100
  /\ textboxRect' = <<p[1] * 100, p[2] * 100, 0, 0>>
  /\ objects' = Append(objects, LiveRect)
  /\ UNCHANGED <<history, timerPending, toolVars, lineVars, pathVars, selVars, zoomVars, snapVars, bootVars, asyncVars>>
  /\ GhostArg("text:down", <<p[1], p[2]>>, TRUE)

TextMouseMove(p) ==
  /\ isDrawingText
  /\ LET px == p[1] * 100
         py == p[2] * 100
     IN textboxRect' = << IF origX > px THEN Abs(px) ELSE textboxRect[1],
                          IF origY > py THEN Abs(py) ELSE textboxRect[2],
                          Abs(origX - px),
                          Abs(origY - py) >>
  /\ UNCHANGED <<histVars, toolVars, lineVars, pathVars, selVars, mouseHeld, zoomVars, snapVars, bootVars, asyncVars>>
  /\ UNCHANGED <<isDrawingText, origX, origY>>
  /\ GhostArg("text:move", <<p[1], p[2]>>, TRUE)

\* the text block that replaces the rectangle
Textbox(rect) ==
  Obj("textbox", <<rect[1], rect[2], IF rect[3] < 8000 THEN 8000 ELSE rect[3]>>, FALSE)

\* mouse:up: the rectangle is removed, the text block is added and made the
\* active object (selection:created calls setActiveTool('select')), then
\* object:modified is triggered; the mouse:up handler of the path tool,
\* out of path mode, resets its flags
TextMouseUp ==
  /\ mouseHeld
  /\ isDrawingText
  /\ HasRoom
  /\ mouseHeld' = FALSE
  /\ isDrawingText' = FALSE
  /\ LET objs == Append(SelectSeq(objects, LAMBDA o : ~IsLiveRect(o)), Textbox(textboxRect))
     IN /\ objects' = objs
        /\ history' = Modified(objs)
        /\ activeSelection' = Len(objs)
  /\ activeTool' = "select"
  /\ isDrawingLineMode' = FALSE
  /\ isDrawingPathMode' = FALSE
  /\ isDrawingTextMode' = FALSE
  /\ isMouseDown' = FALSE
  /\ isDrawingCurve' = FALSE
  /\ UNCHANGED <<timerPending, lineVars, inputFocused, zoomVars, snapVars, bootVars, asyncVars>>
  /\ UNCHANGED <<isDrawingPath, pathToDraw, updatedPath, rememberX, rememberY>>
  /\ UNCHANGED <<textboxRect, origX, origY>>
  /\ GhostArg("text:up", textboxRect, TRUE)

TextPts == {<<0, 0>>, <<100, 100>>}

NextText ==
  \/ \E id \in {"select", "textbox"} : setActiveTool(id)
  \/ InitialSnapshot
  \/ \E p \in TextPts : TextMouseDown(p)
  \/ \E p \in TextPts : TextMouseMove(p)
  \/ TextMouseUp
  \/ DeleteKey
  \/ undo

SpecText == Init /\ [][NextText]_vars

(***************************************************************************)
(* Claims about the text-box tool.                                         *)
(***************************************************************************)
\* C15: after every pointer-move of a text-box gesture the rectangle spans
\* the anchor and the pointer: left and top are the smaller coordinates,
\* width and height the distances.
C15_RectSpansAnchorAndPointer ==
  lastEvent = "text:move"
    => textboxRect = << IF origX < lastArg[1] * 100 THEN origX ELSE lastArg[1] * 100,
                        IF origY < lastArg[2] * 100 THEN origY ELSE lastArg[2] * 100,
                        Abs(lastArg[1] * 100 - origX), Abs(lastArg[2] * 100 - origY) >>

\* C16: the pointer-up of a text-box gesture leaves no rubber-band rectangle
\* on the canvas, adds one text block at the rectangle's left and top with
\* the width max(80, rectangle width), and pushes exactly one history entry.
C16_TextboxReplacesRect ==
  [][ lastEvent' = "text:up"
        => /\ \A i \in 1..Len(objects') : objects'[i].type # "rect"
           /\ Len(objects') > 0
           /\ objects'[Len(objects')].type = "textbox"
           /\ objects'[Len(objects')].geom
                = <<textboxRect[1], textboxRect[2], IF textboxRect[3] > 8000 THEN textboxRect[3] ELSE 8000>>
           /\ Cardinality({i \in 1..Len(objects') : objects'[i].type = "textbox"})
                = Cardinality({i \in 1..Len(objects) : objects[i].type = "textbox"}) + 1
           /\ history' = HistoryPush(history, stringify(toJSON(objects'))) ]_vars

(***************************************************************************)
(* The line tool as a state machine: Idle and Drawing.                     *)
(***************************************************************************)
\* a pointer-up on the canvas with no gesture of the line or text-box tool
\* in progress (the pointer was pressed outside the canvas): the line
\* tool's handler returns, the path tool's handler resets its flags
IdleMouseUp ==
  /\ ~isDrawingLine
  /\ ~isDrawingText
  /\ ~isDrawingPathMode
  /\ ~mouseHeld
  /\ isMouseDown' = FALSE
  /\ isDrawingCurve' = FALSE
  /\ UNCHANGED <<histVars, toolVars, lineVars, textVars, selVars, mouseHeld, zoomVars, snapVars, bootVars, asyncVars>>
  /\ UNCHANGED <<isDrawingPath, pathToDraw, updatedPath, rememberX, rememberY>>
  /\ GhostOther("up:idle", FALSE)

NextLineTool ==
  \/ \E id \in {"select", "line"} : setActiveTool(id)
  \/ InitialSnapshot
  \/ LineMouseDown(HistAnchor)
  \/ \E p \in HistPts : LineMouseMove(p, FALSE)
  \/ LineMouseUp
  \/ IdleMouseUp
  \/ undo

SpecLineTool == Init /\ [][NextLineTool]_vars

SnapPts == {<<0, 0>>, <<100, 0>>, <<3, 4>>, <<8, 8>>}

OnPixels(seg) == \A i \in 2..Len(seg) : seg[i] % 100 = 0

NextPathSnap ==
  \/ setActiveTool("path")
  \/ \E p \in SnapPts :
       /\ pathToDraw # <<>> => OnPixels(pathToDraw[Len(pathToDraw)])
       /\ PathMouseDown(p)
  \/ \E p \in SnapPts, shiftKey \in BOOLEAN : PathMouseMove(p, shiftKey)
  \/ \E p \in SnapPts : PathMouseUp(p)

SpecPathSnap == Init /\ [][NextPathSnap]_vars

(***************************************************************************)
(* Claims about the preview of a path segment.                             *)
(***************************************************************************)
\* the endpoint of a segment
EndOf(seg) == IF seg[1] = "Q" THEN <<seg[4], seg[5]>> ELSE <<seg[2], seg[3]>>

\* the pointer of the move just made is within 10 px, on each axis, of the
\* endpoint of a committed segment
NearPlaced ==
  \E i \in 1..(Len(pathToDraw) - 1) :
    /\ Abs(lastArg'[1] * 100 - EndOf(pathToDraw[i])[1]) <= 1000
    /\ Abs(lastArg'[2] * 100 - EndOf(pathToDraw[i])[2]) <= 1000

\* a pointer-move that previews a Line segment: no curve is being pulled
\* and the button is up
PreviewMove ==
  /\ lastEvent' = "path:move"
  /\ ~isDrawingCurve
  /\ ~isMouseDown
  /\ Len(pathToDraw) > 1

\* C19: with the angle snap held, the preview endpoint is the snapped
\* endpoint computed from the endpoint of the last committed segment, be it
\* a Move, a Line or a Curve (away from the proximity snap).
C19_SnapFromLastEndpoint ==
  [][ (PreviewMove /\ lastArg'[3] /\ ~NearPlaced)
        => LET last == EndOf(pathToDraw[Len(pathToDraw) - 1])
               end == SnappedEnd(last[1], last[2], <<lastArg'[1], lastArg'[2]>>)
           IN pathToDraw'[Len(pathToDraw')] = <<"L", end[1], end[2]>> ]_vars

(***************************************************************************)
(* Claims about the segments of a path.                                    *)
(***************************************************************************)
\* the path in progress is non-empty and starts with a Move
StartsWithMove ==
  /\ isDrawingPath => pathToDraw # <<>>
  /\ pathToDraw # <<>> => pathToDraw[1][1] = "M"

\* C18 as stated: the first pointer-down in path mode creates a path that
\* consists of one Move segment, and in every state of a path session the
\* path is non-empty and its first segment is a Move.
C18_FirstDownOneMove ==
  /\ (lastEvent = "path:down" /\ nPlaced = 1)
       => (Len(pathToDraw) = 1 /\ pathToDraw[1][1] = "M")
  /\ StartsWithMove

\* C18 amended: the first pointer-down creates a path of a Move segment
\* followed by the preview Line segment at the same point, and in every
\* state of a path session the path is non-empty and starts with a Move.
C18_FirstDownMoveAndPreview ==
  /\ (lastEvent = "path:down" /\ nPlaced = 1)
       => /\ Len(pathToDraw) = 2
          /\ pathToDraw[1][1] = "M"
          /\ pathToDraw[2] = <<"L", pathToDraw[1][2], pathToDraw[1][3]>>
  /\ StartsWithMove

\* the first point of a path was placed
C18_Witness ==
  /\ lastEvent = "path:down"
  /\ nPlaced = 1
  /\ isDrawingPath
  /\ pathToDraw # <<>>
  /\ \E i \in 1..Len(objects) : IsLivePath(objects[i])

C25_CancelLeavesIdle ==
  lastEvent = "path:cancel"
    => (~isDrawingPath /\ pathToDraw = <<>> /\ ~isDrawingCurve)

(***************************************************************************)
(* Claims about the initial snapshot.                                      *)
(***************************************************************************)
\* C26: the oldest history entry is the document as it was loaded, whatever
\* the order of the initial-snapshot timer and the first edits.
C26_OldestEntryIsLoaded ==
  Len(history.latest) > 0 => (history.undo \o history.latest)[1] = stringify(loadedDoc)

(***************************************************************************)
(* Claims about the active tool.                                           *)
(***************************************************************************)
\* C27: when setActiveTool(id) has returned, also after it discarded the
\* active selection, activeTool is id and exactly the drawing-mode flag of
\* id is set: the flag of the line, the path or the text-box tool is set
\* if and only if that tool is the active tool.
C27_ToolAndFlagsAgree ==
  lastEvent = "tool"
    => /\ isDrawingLineMode <=> activeTool = "line"
       /\ isDrawingPathMode <=> activeTool = "path"
       /\ isDrawingTextMode <=> activeTool = "textbox"

(***************************************************************************)
(* Claims about the object under construction.                             *)
(***************************************************************************)
\* C28: while a line or a path is under construction, the object the tool
\* holds is one of the objects of the canvas, also when undo() or redo()
\* is called in mid-gesture.
C28_ObjectUnderConstructionOnCanvas ==
  /\ isDrawingLine => \E i \in 1..Len(objects) : objects[i].live /\ objects[i].type = "line"
  /\ isDrawingPath => \E i \in 1..Len(objects) : IsLivePath(objects[i])

(***************************************************************************)
(* Claims about the rendered size of the canvas.                           *)
(***************************************************************************)
\* C29: after any sequence of zoom applications and canvas-size changes the
\* rendered width and height are the original width and height multiplied
\* by the zoom level.
C29_RenderedSizeIsOriginalTimesZoom ==
  /\ width = originalW * zoom[1]
  /\ height = originalH * zoom[1]

(***************************************************************************)
(* Claims about the filters an effect change leaves alone.                 *)
(***************************************************************************)
\* C30: changing one effect slider leaves the filter of every other effect
\* as it was: present with the same parameters, or absent.
C30_OtherFiltersUnchanged ==
  [][ lastEvent' = "effect"
        => LET changed == IF lastArg'[1] = "blur" THEN "Blur"
                          ELSE IF lastArg'[1] = "brightness" THEN "Brightness"
                          ELSE IF lastArg'[1] = "saturation" THEN "Saturation"
                          ELSE "Gamma"
               before == objects[activeSelection].filters
               after == objects'[activeSelection].filters
           IN \A kind \in {"Blur", "Brightness", "Saturation", "Gamma"} \ {changed} :
                {after[i] : i \in {j \in 1..Len(after) : after[j][1] = kind}}
                  = {before[i] : i \in {j \in 1..Len(before) : before[j][1] = kind}} ]_vars

(***************************************************************************)
(* The visible bounding box of an object.  A decoded image is [w, h, data] *)
(* where data holds <<x, y>> of every pixel whose alpha is not zero; a     *)
(* number of the result is <<n>>, and <<>> is undefined or NaN.            *)
(***************************************************************************)
Rasters ==
  UNION {[w : {cols}, h : {rows}, data : SUBSET ((0..cols - 1) \X (0..rows - 1))] :
           cols \in 1..MaxSide, rows \in 1..MaxSide}

\* the 'load' handler of getImageData: the image is drawn and its pixels are read
getImageData ==
  /\ imageData.w = 0
  /\ \E image \in Rasters : imageData' = image
  /\ UNCHANGED <<histVars, toolVars, lineVars, pathVars, textVars, selVars, mouseHeld, zoomVars, snapVars, bootVars>>
  /\ UNCHANGED <<aligning, realBound, loading, sequential>>
  /\ GhostOther("image:load", FALSE)

\* scanPixels: four passes over the pixels, for y1, y2, x1 and x2
scanPixels(image) ==
  LET w == image.w
      h == image.h
      alpha(x, y) == <<x, y>> \in image.data
      rowsWithAlpha == {y \in 0..h - 1 : \E x \in 0..w - 1 : alpha(x, y)}
      \* for (y = 0; y < h; y++): the first row with a pixel
      y1 == IF rowsWithAlpha = {} THEN <<>>
            ELSE <<CHOOSE y \in rowsWithAlpha : \A r \in rowsWithAlpha : y <= r>>
      \* for (y = h - 1; y > y1; y--): the last row with a pixel, of the rows after y1
      after == IF y1 = <<>> THEN {} ELSE {y \in rowsWithAlpha : y > y1[1]}
      y2 == IF after = {} THEN <<>> ELSE <<CHOOSE y \in after : \A r \in after : y >= r>>
      \* for (y = y1; y < y2; y++): the rows the passes for x1 and x2 visit
      visited == IF y1 = <<>> \/ y2 = <<>> THEN {} ELSE y1[1]..(y2[1] - 1)
      \* x1 = w, then every x < x1 with a pixel replaces it
      left == {x \in 0..w - 1 : \E y \in visited : alpha(x, y)} \cup {w}
      x1 == CHOOSE x \in left : \A c \in left : x <= c
      \* x2 = 0, then for (x = w - 1; x > x1; x--) every x > x2 with a pixel replaces it
      right == {x \in x1 + 1..w - 1 : \E y \in visited : alpha(x, y)} \cup {0}
      x2 == CHOOSE x \in right : \A c \in right : x >= c
  IN [x1 |-> <<x1>>, x2 |-> <<x2>>, y1 |-> y1, y2 |-> y2,
      width |-> <<x2 - x1>>,
      height |-> IF y1 = <<>> \/ y2 = <<>> THEN <<>> ELSE <<y2[1] - y1[1]>>]

\* getRealBBox after its await: the pixels are scanned
getRealBBox ==
  /\ imageData.w # 0
  /\ realBound.x1 = <<>>
  /\ realBound' = scanPixels(imageData)
  /\ UNCHANGED <<histVars, toolVars, lineVars, pathVars, textVars, selVars, mouseHeld, zoomVars, snapVars, bootVars>>
  /\ UNCHANGED <<aligning, imageData, loading, sequential>>
  /\ GhostOther("bbox", FALSE)

SpecBBox == Init /\ [][getImageData \/ getRealBBox]_vars

(***************************************************************************)
(* Claims about the visible bounding box.                                  *)
(***************************************************************************)

\* C22: for an image with at least one pixel whose alpha is not zero, x1 and
\* y1 are the least column and row that hold such a pixel and x2 and y2 the
\* greatest.
C22_TightestBox ==
  (lastEvent = "bbox" /\ imageData.data # {})
    => LET xs == {p[1] : p \in imageData.data}
           ys == {p[2] : p \in imageData.data}
       IN /\ realBound.x1 # <<>> /\ realBound.x1[1] \in xs /\ \A x \in xs : realBound.x1[1] <= x
          /\ realBound.x2 # <<>> /\ realBound.x2[1] \in xs /\ \A x \in xs : realBound.x2[1] >= x
          /\ realBound.y1 # <<>> /\ realBound.y1[1] \in ys /\ \A y \in ys : realBound.y1[1] <= y
          /\ realBound.y2 # <<>> /\ realBound.y2[1] \in ys /\ \A y \in ys : realBound.y2[1] >= y

(***************************************************************************)
(* The clipboard.  A text of the clipboard is a serialized value           *)
(* <<"json", [kind, type, geom]>>, a string that atob accepts and that     *)
(* holds an image, <<"base64">>, or a string that is neither, Malformed.   *)
(* The text of an object ends with a brace, which atob rejects.            *)
(***************************************************************************)
ClipboardTexts ==
  {stringify([kind |-> "object", type |-> t, geom |-> <<500, 700, 300, 200>>]) :
     t \in {"rect", "circle", "textbox", "ellipse", "image", "undefined"}}
    \cup {stringify([kind |-> "array", type |-> "undefined", geom |-> <<>>]), Malformed, <<"base64">>}

\* JSON.parse succeeds and gives an object that is neither null nor an array
isJSONObjectString(s) == CanParse(s) /\ parse(s).kind = "object"

\* window.atob accepts what follows 'base64,'
isBase64String(str) == str[1] = "base64"

\* the paste handler that inserts whatever object the text holds
pasteAnyType(text, hasImage) ==
  /\ loading < MaxObjects
  /\ IF isBase64String(text)
       THEN /\ loading' = loading + 1
            /\ UNCHANGED <<objects, history, toolVars, activeSelection>>
       ELSE /\ loading' = IF hasImage THEN loading + 1 ELSE loading
            /\ IF isJSONObjectString(text)
                 THEN /\ Len(objects) < MaxObjects
                      /\ HasRoom
                      /\ LET obj == parse(text)
                             o == Obj(obj.type, <<0, 0, obj.geom[3], obj.geom[4]>>, FALSE)
                             objs == Append(objects, o)
                         IN /\ objects' = objs
                            /\ history' = Modified(objs)
                            /\ activeSelection' = Len(objs)
                      /\ activeTool' = "select"
                      /\ isDrawingLineMode' = FALSE
                      /\ isDrawingPathMode' = FALSE
                      /\ isDrawingTextMode' = FALSE
                 ELSE UNCHANGED <<objects, history, toolVars, activeSelection>>
  /\ UNCHANGED <<timerPending, lineVars, pathVars, textVars, inputFocused, mouseHeld, zoomVars, snapVars, bootVars>>
  /\ UNCHANGED <<aligning, imageData, realBound, sequential>>
  /\ GhostArg("paste", <<text, hasImage>>, TRUE)

\* the 'paste' listener: text is the clipboard's text, and hasImage says
\* that an item of the clipboard is an image file
paste(text, hasImage) ==
  /\ loading < MaxObjects
  /\ IF isBase64String(text)
       THEN /\ loading' = loading + 1
            /\ UNCHANGED <<objects, history, toolVars, activeSelection>>
       ELSE /\ loading' = IF hasImage THEN loading + 1 ELSE loading
            /\ IF /\ isJSONObjectString(text)
                  /\ parse(text).type \in {"rect", "circle", "line", "path", "polygon", "polyline", "textbox", "group"}
                 THEN \* enlivenObjects: the object is set to left 0, top 0, added and made the active object
                      /\ Len(objects) < MaxObjects
                      /\ HasRoom
                      /\ LET obj == parse(text)
                             o == Obj(obj.type, <<0, 0, obj.geom[3], obj.geom[4]>>, FALSE)
                             objs == Append(objects, o)
                         IN /\ objects' = objs
                            /\ history' = Modified(objs)
                            /\ activeSelection' = Len(objs)
                      /\ activeTool' = "select"
                      /\ isDrawingLineMode' = FALSE
                      /\ isDrawingPathMode' = FALSE
                      /\ isDrawingTextMode' = FALSE
                 ELSE UNCHANGED <<objects, history, toolVars, activeSelection>>
  /\ UNCHANGED <<timerPending, lineVars, pathVars, textVars, inputFocused, mouseHeld, zoomVars, snapVars, bootVars>>
  /\ UNCHANGED <<aligning, imageData, realBound, sequential>>
  /\ GhostArg("paste", <<text, hasImage>>, TRUE)

\* the callback of fabric.Image.fromURL: the decoded image is set to left 0,
\* top 0, scaled to 100 pixels, added and made the active object
ImagePasted ==
  /\ loading > 0
  /\ Len(objects) < MaxObjects
  /\ HasRoom
  /\ loading' = loading - 1
  /\ LET objs == Append(objects, Obj("image", <<0, 0, 100, 100>>, FALSE))
     IN /\ objects' = objs
        /\ history' = Modified(objs)
        /\ activeSelection' = Len(objs)
  /\ activeTool' = "select"
  /\ isDrawingLineMode' = FALSE
  /\ isDrawingPathMode' = FALSE
  /\ isDrawingTextMode' = FALSE
  /\ UNCHANGED <<timerPending, lineVars, pathVars, textVars, inputFocused, mouseHeld, zoomVars, snapVars, bootVars>>
  /\ UNCHANGED <<aligning, imageData, realBound, sequential>>
  /\ GhostOther("paste:image", TRUE)

SpecPaste ==
  Init /\ [][ \/ InitialSnapshot
              \/ \E text \in ClipboardTexts, hasImage \in BOOLEAN : paste(text, hasImage)
              \/ ImagePasted ]_vars

(***************************************************************************)
(* Claims about the clipboard.                                             *)
(***************************************************************************)

Aligned(geom, pos, bound) ==
  LET cols == geom[3] \div 100
      rows == geom[4] \div 100
      rb == scanPixels([w |-> cols, h |-> rows, data |-> (0..cols - 1) \X (0..rows - 1)])
      l == geom[1] - bound[1] - rb.x1[1] * 100
      t == geom[2] - bound[2] - rb.y1[1] * 100
      left == IF pos = "left" THEN l
              ELSE IF pos = "center-h" THEN l + width \div 2 - rb.width[1] * 50
              ELSE IF pos = "right" THEN l + width - rb.width[1] * 100
              ELSE geom[1]
      top == IF pos = "top" THEN t
             ELSE IF pos = "center-v" THEN t + height \div 2 - rb.height[1] * 50
             ELSE IF pos = "bottom" THEN t + (height - rb.height[1] * 100)
             ELSE geom[2]
  IN <<left, top, geom[3], geom[4]>>

\* the click on an alignment button: alignObject up to its await
alignObject(pos) ==
  /\ activeSelection # 0
  /\ Len(aligning) < MaxPending
  /\ LET geom == objects[activeSelection].geom
     IN /\ aligning' = Append(aligning, <<pos, activeSelection, <<geom[1], geom[2]>> >>)
        /\ sequential' =
             [i \in 1..Len(objects) |->
                LET g == IF i <= Len(sequential) THEN sequential[i] ELSE objects[i].geom
                IN IF i = activeSelection THEN Aligned(g, pos, <<g[1], g[2]>>) ELSE g]
  /\ UNCHANGED <<histVars, toolVars, lineVars, pathVars, textVars, selVars, mouseHeld, zoomVars, snapVars, bootVars>>
  /\ UNCHANGED <<imageData, realBound, loading>>
  /\ GhostArg("align", pos, FALSE)

\* the image of a suspended request is decoded: alignObject from its await on
alignObjectResumed(i) ==
  /\ i \in 1..Len(aligning)
  /\ HasRoom
  /\ LET pos == aligning[i][1]
         target == aligning[i][2]
         objs == [objects EXCEPT ![target].geom = Aligned(@, pos, aligning[i][3])]
     IN /\ objects' = objs
        /\ history' = Modified(objs)
  /\ aligning' = RemoveAt(aligning, i)
  /\ UNCHANGED <<timerPending, toolVars, lineVars, pathVars, textVars, selVars, mouseHeld, zoomVars, snapVars, bootVars>>
  /\ UNCHANGED <<imageData, realBound, loading, sequential>>
  /\ GhostArg("align:done", aligning[i][1], TRUE)

SpecAlign ==
  Init /\ [][ \/ paste(stringify([kind |-> "object", type |-> "rect", geom |-> <<500, 700, 300, 200>>]), FALSE)
              \/ \E pos \in {"left", "center-h", "right", "top", "center-v", "bottom"} : alignObject(pos)
              \/ \E i \in 1..MaxPending : alignObjectResumed(i) ]_vars

(***************************************************************************)
(* Claims about the alignment.                                             *)
(***************************************************************************)

\* C21: alignment requests that overlap have the effect of the same
\* requests run one after another: once no request is suspended, every
\* object is where the requests, each run to its end when it was made,
\* would have put it.
C21_OverlappingAsSequential ==
  aligning = <<>>
    => \A i \in 1..Len(sequential) : objects[i].geom = sequential[i]

(***************************************************************************)
(* The construction of the editor: init() takes its steps one by one.      *)
(***************************************************************************)
\* the editor before init()
InitBoot ==
  /\ pc = 0
  /\ canvas = "unset"
  /\ uncaught = FALSE
  /\ log = {}
  /\ objects = <<>>
  /\ loadedDoc = <<>>
  /\ history = EmptyHistory
  /\ timerPending = FALSE
  /\ activeTool = "none"
  /\ isDrawingLineMode = FALSE
  /\ isDrawingPathMode = FALSE
  /\ isDrawingTextMode = FALSE
  /\ activeSelection = 0
  /\ inputFocused = FALSE
  /\ isDrawingText = FALSE
  /\ textboxRect = <<>>
  /\ origX = 0
  /\ origY = 0
  /\ isDrawingLine = FALSE
  /\ lineToDraw = <<>>
  /\ pointerPoints = <<>>
  /\ mouseHeld = FALSE
  /\ isDrawingPath = FALSE
  /\ pathToDraw = <<>>
  /\ updatedPath = <<>>
  /\ isMouseDown = FALSE
  /\ isDrawingCurve = FALSE
  /\ rememberX = 0
  /\ rememberY = 0
  /\ zoom = <<100, 0>>
  /\ originalW = 800
  /\ originalH = 600
  /\ width = 80000
  /\ height = 60000
  /\ snapIn = 0
  /\ snapOut = 0
  /\ snapDone = FALSE
  /\ aligning = <<>>
  /\ imageData = [w |-> 0, h |-> 0, data |-> {}]
  /\ realBound = [x1 |-> <<>>, x2 |-> <<>>, y1 |-> <<>>, y2 |-> <<>>, width |-> <<>>, height |-> <<>>]
  /\ loading = 0
  /\ sequential = <<>>
  /\ lastEvent = "new"
  /\ lastArg = 0
  /\ phase = "edits"
  /\ nEdits = 0
  /\ nUndo = 0
  /\ chain = "none"
  /\ docBeforeUndo = <<>>
  /\ zoomBefore = <<100, 0>>
  /\ nPlaced = 0

\* the next step of init().  initializeToolbar and initializeCanvas catch
\* what their bodies throw, write to the console and return; the three
\* drawing tools call fabricCanvas.on(...) on the canvas they are given
InitStep ==
  /\ ~uncaught
  /\ pc < Len(InitSteps)
  /\ LET step == InitSteps[pc + 1]
     IN \/ /\ step = "initializeToolbar"
           /\ \E throws \in BOOLEAN : log' = IF throws THEN log \cup {"can't create toolbar"} ELSE log
           /\ pc' = pc + 1
           /\ UNCHANGED <<canvas, uncaught, objects, loadedDoc, timerPending>>
        \/ /\ step = "initializeCanvas"
           /\ \E constructs \in BOOLEAN, stored \in {stringify(d) : d \in SavedDocs \cup ImageDocs} \cup {Malformed} :
                IF constructs /\ CanParse(stored)
                  THEN /\ canvas' = "canvas"
                       /\ objects' = loadFromJSON(parse(stored))
                       /\ loadedDoc' = parse(stored)
                       /\ timerPending' = TRUE
                       /\ log' = log
                  ELSE /\ canvas' = "null"
                       /\ log' = log \cup {"can't create canvas instance"}
                       /\ UNCHANGED <<objects, loadedDoc, timerPending>>
           /\ pc' = pc + 1
           /\ UNCHANGED uncaught
        \/ /\ step \in {"initializeLineDrawing", "initializePathDrawing", "initializeTextBoxDrawing"}
           /\ IF canvas = "null"
                THEN uncaught' = TRUE /\ pc' = pc     \* null.on(...) throws, and init() has no handler
                ELSE uncaught' = FALSE /\ pc' = pc + 1
           /\ UNCHANGED <<canvas, log, objects, loadedDoc, timerPending>>
        \/ /\ step \notin {"initializeToolbar", "initializeCanvas", "initializeLineDrawing",
                             "initializePathDrawing", "initializeTextBoxDrawing"}
           /\ pc' = pc + 1
           /\ UNCHANGED <<canvas, uncaught, log, objects, loadedDoc, timerPending>>
  /\ lastEvent' = "init:step"
  /\ lastArg' = InitSteps[pc + 1]
  /\ UNCHANGED <<history, toolVars, lineVars, pathVars, textVars, selVars, mouseHeld, zoomVars, snapVars, asyncVars>>
  /\ UNCHANGED <<phase, nEdits, nUndo, chain, docBeforeUndo, zoomBefore, nPlaced>>

SpecBoot == InitBoot /\ [][InitStep]_vars

(***************************************************************************)
(* Claims about the construction of the editor.                            *)
(***************************************************************************)

\* C24: when the canvas or the toolbar fails to construct, the failure is
\* written to the console and no exception leaves init(): init() goes on
\* to its next step until every step was taken.
C24_FailureDoesNotStopInit ==
  (canvas = "null" \/ log # {})
    => /\ ~uncaught
       /\ pc < Len(InitSteps) => ENABLED InitStep
====
